---- MODULE Spec2Model ----
(***************************************************************************)
(* kroki2md: diagram sources are encoded into Kroki links (convert,        *)
(* convert_file) and image placeholders of a markdown document are         *)
(* rewritten with them (update_markdown_file, check_line).                 *)
(*                                                                         *)
(* Text is a sequence of one-character strings, bytes are 0..255.          *)
(***************************************************************************)
EXTENDS Integers, Sequences, FiniteSets, TLC

\* ------------------------------------------------------------------ bounds
MaxFiles == 2        \* number of --input arguments of one run
MaxLines == 2        \* terminated lines of the target document
MaxRuns == 2         \* consecutive runs of the tool on the same arguments
MaxContentLen == 2   \* characters of a diagram source (encoder specification)

\* --------------------------------------------------------- text utilities
\* Python: sub in s
contains(s, sub) ==
    \E k \in 0..(Len(s) - Len(sub)) : SubSeq(s, k + 1, k + Len(sub)) = sub

\* Python: s.split(sep)[-1], the text after the last occurrence of sep
\* (the whole of s when sep does not occur)
split_last(s, sep) ==
    LET hits == {k \in 1..Len(s) : s[k] = sep}
        last == IF hits = {} THEN 0 ELSE CHOOSE k \in hits : \A h \in hits : h <= k
    IN  SubSeq(s, last + 1, Len(s))

RECURSIVE concat(_)
\* "".join(lines): what f.writelines(lines) puts in the file
concat(lines) ==
    IF lines = <<>> THEN <<>> ELSE Head(lines) \o concat(Tail(lines))

\* open(file_name, "r"): text mode with newline=None turns "\r\n" and a
\* lone "\r" into "\n" while reading
universal_newlines(s) ==
    LET marked == [k \in 1..Len(s) |->
                      IF s[k] = "\r" THEN "\n"
                      ELSE IF s[k] = "\n" /\ k > 1 /\ s[k - 1] = "\r" THEN "dropped"
                      ELSE s[k]]
    IN  SelectSeq(marked, LAMBDA c : c # "dropped")

\* the lines of a text, each with its terminator; the last may have none
split_lines(s) ==
    LET ends == {k \in 1..Len(s) : s[k] = "\n"}
        nth(m) == CHOOSE e \in ends : Cardinality({x \in ends : x <= e}) = m
        start(m) == IF m = 1 THEN 1 ELSE nth(m - 1) + 1
        n == Cardinality(ends)
        last == IF n = 0 THEN 0 ELSE nth(n)
    IN  [m \in 1..n |-> SubSeq(s, start(m), nth(m))]
            \o (IF last < Len(s) THEN <<SubSeq(s, last + 1, Len(s))>> ELSE <<>>)

\* f.readlines() on a file opened with open(file_name, "r")
readlines(content) == split_lines(universal_newlines(content))

\* ---------------------------------------------------- program constants
\* korki_url_format = "https://kroki.io/{type}/{format}/{data}"
korki_url_format(type, format, payload) ==
    <<"h","t","t","p","s",":","/","/","k","r","o","k","i",".","i","o","/">>
        \o type \o <<"/">> \o format \o <<"/">> \o payload

\* markdown_format = "![{file_name}]({url})\n", without the line break
markdown_format_no_newline(file_name, url) ==
    <<"!","[">> \o file_name \o <<"]","(">> \o url \o <<")">>

\* markdown_format = "![{file_name}]({url})\n"
markdown_format(file_name, url) ==
    <<"!","[">> \o file_name \o <<"]","(">> \o url \o <<")","\n">>

mermaid == <<"m","e","r","m","a","i","d">>
svg == <<"s","v","g">>

\* diagram_types = {".mmd": "mermaid"}
diagram_types == [t \in {<<".","m","m","d">>} |-> mermaid]

\* kroki_output_formats = ["svg"]
kroki_output_formats == {svg}

\* ------------------------------------------------------------ the encoder
\* Python: ord(c), for the characters diagram sources are drawn from
ord == [c \in {"A", ">", "é", "€"} |->
          CASE c = "A" -> 65 [] c = ">" -> 62 [] c = "é" -> 233 [] c = "€" -> 8364]

\* the UTF-8 bytes of one code point
utf8_char(cp) ==
    IF cp < 128 THEN <<cp>>
    ELSE IF cp < 2048 THEN <<192 + (cp \div 64), 128 + (cp % 64)>>
    ELSE IF cp < 65536
         THEN <<224 + (cp \div 4096), 128 + ((cp \div 64) % 64), 128 + (cp % 64)>>
         ELSE <<240 + (cp \div 262144), 128 + ((cp \div 4096) % 64),
                128 + ((cp \div 64) % 64), 128 + (cp % 64)>>

RECURSIVE utf8_encode(_)
\* data.encode("utf-8")
utf8_encode(text) ==
    IF text = <<>> THEN <<>> ELSE utf8_char(ord[Head(text)]) \o utf8_encode(Tail(text))

\* the n low bits of v, most significant first (Huffman codes are packed so)
bits_msb(v, n) == [k \in 1..n |-> (v \div (2 ^ (n - k))) % 2]

\* the code of a literal byte in deflate's fixed Huffman table
fixed_literal_code(b) ==
    IF b < 144 THEN bits_msb(48 + b, 8) ELSE bits_msb(400 + (b - 144), 9)

RECURSIVE literal_codes(_)
literal_codes(bytes) ==
    IF bytes = <<>> THEN <<>>
    ELSE fixed_literal_code(Head(bytes)) \o literal_codes(Tail(bytes))

RECURSIVE pack_bits(_)
\* bits to bytes, first bit in the lowest position, last byte zero-filled
pack_bits(bits) ==
    IF bits = <<>> THEN <<>>
    ELSE LET n == IF Len(bits) < 8 THEN Len(bits) ELSE 8
             byte == LET RECURSIVE sum(_)
                         sum(j) == IF j > n THEN 0
                                   ELSE bits[j] * (2 ^ (j - 1)) + sum(j + 1)
                     IN  sum(1)
         IN  <<byte>> \o pack_bits(SubSeq(bits, n + 1, Len(bits)))

\* one final block (BFINAL = 1) with fixed Huffman codes (BTYPE = 01) holding
\* every byte as a literal, then the end-of-block code: the stream zlib
\* emits whenever the input has no three-byte run that occurs twice
deflate_literals(bytes) ==
    pack_bits(<<1, 1, 0>> \o literal_codes(bytes) \o bits_msb(0, 7))

RECURSIVE adler32_from(_, _, _)
adler32_from(bytes, a, b) ==
    IF bytes = <<>> THEN <<b \div 256, b % 256, a \div 256, a % 256>>
    ELSE LET a2 == (a + Head(bytes)) % 65521
         IN  adler32_from(Tail(bytes), a2, (b + a2) % 65521)

\* the Adler-32 checksum, as the four big-endian bytes that end a zlib stream
adler32(bytes) == adler32_from(bytes, 1, 0)

\* there is a three-byte run that occurs twice (an LZ77 match is possible)
has_repeat(bytes) ==
    \E p, q \in 1..(Len(bytes) - 2) :
        p < q /\ SubSeq(bytes, p, p + 2) = SubSeq(bytes, q, q + 2)

\* zlib.compress(bytes, 9): header 78 DA, the deflate stream, Adler-32
zlib_compress(bytes) == <<120, 218>> \o deflate_literals(bytes) \o adler32(bytes)

\* the alphabets of base64: 62 common characters, then two that differ
b64_common ==
    <<"A","B","C","D","E","F","G","H","I","J","K","L","M",
      "N","O","P","Q","R","S","T","U","V","W","X","Y","Z",
      "a","b","c","d","e","f","g","h","i","j","k","l","m",
      "n","o","p","q","r","s","t","u","v","w","x","y","z",
      "0","1","2","3","4","5","6","7","8","9">>
urlsafe_alphabet == b64_common \o <<"-", "_">>
standard_alphabet == b64_common \o <<"+", "/">>

RECURSIVE b64encode(_, _)
\* three bytes become four characters; a short last group is padded with "="
b64encode(bytes, alphabet) ==
    IF bytes = <<>> THEN <<>>
    ELSE IF Len(bytes) = 1
    THEN LET n == bytes[1] * 16
         IN  <<alphabet[(n \div 64) + 1], alphabet[(n % 64) + 1], "=", "=">>
    ELSE IF Len(bytes) = 2
    THEN LET n == (bytes[1] * 256 + bytes[2]) * 4
         IN  <<alphabet[(n \div 4096) + 1], alphabet[((n \div 64) % 64) + 1],
               alphabet[(n % 64) + 1], "=">>
    ELSE LET n == bytes[1] * 65536 + bytes[2] * 256 + bytes[3]
         IN  <<alphabet[(n \div 262144) + 1], alphabet[((n \div 4096) % 64) + 1],
               alphabet[((n \div 64) % 64) + 1], alphabet[(n % 64) + 1]>>
             \o b64encode(SubSeq(bytes, 4, Len(bytes)), alphabet)

\* base64.b64encode: the standard alphabet, whose "+" and "/" are not URL-safe
standard_b64encode(bytes) == b64encode(bytes, standard_alphabet)

\* base64.urlsafe_b64encode(...).decode("ascii")
urlsafe_b64encode(bytes) == b64encode(bytes, urlsafe_alphabet)

\* convert_file once the file has been read: data is its text
convert_file(data, ftype, format) ==
    korki_url_format(ftype, format, urlsafe_b64encode(zlib_compress(utf8_encode(data))))

\* ---------------------------------------------------------- substitution
\* the value of req before any assignment: reading it raises UnboundLocalError
UnboundLocal == <<"UnboundLocalError">>

\* "![" + key + "]"
placeholder(key) == <<"!", "[">> \o key \o <<"]">>

\* replacements[key] = value on a dict kept as its list of items: an
\* existing key keeps its position and takes the new value
dict_set(d, key, value) ==
    IF \E p \in 1..Len(d) : d[p].key = key
    THEN [p \in 1..Len(d) |-> IF d[p].key = key THEN [key |-> key, value |-> value]
                              ELSE d[p]]
    ELSE Append(d, [key |-> key, value |-> value])

\* Python: s.replace(old, new, 1)
replace_first(s, old, new) ==
    LET hits == {k \in 0..(Len(s) - Len(old)) : SubSeq(s, k + 1, k + Len(old)) = old}
        k == CHOOSE h \in hits : \A g \in hits : h <= g
    IN  IF hits = {} THEN s
        ELSE SubSeq(s, 1, k) \o new \o SubSeq(s, k + Len(old) + 1, Len(s))

RECURSIVE check_line_in_place_from(_, _, _, _)
check_line_in_place_from(line, items, p, req) ==
    IF p > Len(items) THEN req
    ELSE IF contains(line, placeholder(items[p].key))
         THEN replace_first(line, placeholder(items[p].key),
                            markdown_format_no_newline(items[p].key, items[p].value))
         ELSE check_line_in_place_from(line, items, p + 1, line)

\* check_line putting the link next to the placeholder, inside the line
check_line_in_place(line, items) == check_line_in_place_from(line, items, 1, UnboundLocal)

RECURSIVE check_line_no_break_from(_, _, _, _)
check_line_no_break_from(line, items, p, req) ==
    IF p > Len(items) THEN req
    ELSE IF contains(line, placeholder(items[p].key))
         THEN check_line_no_break_from(line, items, p + 1,
                                       markdown_format(items[p].key, items[p].value))
         ELSE check_line_no_break_from(line, items, p + 1, line)

\* check_line without its break: the loop goes on after a match
check_line_no_break(line, items) == check_line_no_break_from(line, items, 1, UnboundLocal)

RECURSIVE check_line_from(_, _, _, _)
\* the loop of check_line from the p-th item on, req as assigned so far
check_line_from(line, items, p, req) ==
    IF p > Len(items) THEN req
    ELSE IF contains(line, placeholder(items[p].key))
         THEN markdown_format(items[p].key, items[p].value)
         ELSE check_line_from(line, items, p + 1, line)

\* check_line(line, index, replacements, verbosity): the returned text, or
\* UnboundLocal when the loop body never ran
check_line(line, items) == check_line_from(line, items, 1, UnboundLocal)

\* ------------------------------------------------------------------ inputs
SeqsUpTo(S, n) == UNION {[1..k -> S] : k \in 0..n}

path_a == <<"a",".","m","m","d">>
path_d_b == <<"d","/","b",".","m","m","d">>
path_c == <<"c",".","t","x","t">>
path_mmd == <<"m","m","d">>
path_e_a == <<"e","/","a",".","m","m","d">>

\* the paths given with --input
Paths == {path_a, path_d_b, path_c, path_mmd, path_e_a}

\* the text of each diagram source; sources do not change between runs
FileContent ==
    [p \in Paths |->
        CASE p = path_a -> <<"A">>
          [] p = path_d_b -> <<">">>
          [] p = path_c -> <<"A", ">">>
          [] p = path_mmd -> <<"é">>
          [] p = path_e_a -> <<"€">>]

line_plain == <<"x", "\n">>
line_a == <<"!","[","a",".","m","m","d","]", "\n">>
line_b_a == <<"y","!","[","b",".","m","m","d","]","!","[","a",".","m","m","d","]","z","\n">>
line_c_crlf == <<"!","[","c",".","t","x","t","]","\r","\n">>
tail_b == <<"!","[","b",".","m","m","d","]">>

\* terminated lines a target document is made of
Lines == {line_plain, line_a, line_b_a, line_c_crlf}

\* an unterminated last line, or none
Tails == {<<>>, tail_b}

\* the contents the target document may have on disk
Documents == {concat(ls) \o t : ls \in SeqsUpTo(Lines, MaxLines), t \in Tails}

\* the contents of a diagram source in the encoder specification: texts
\* whose UTF-8 bytes zlib stores as literals
Contents == {c \in SeqsUpTo(DOMAIN ord, MaxContentLen) : ~has_repeat(utf8_encode(c))}

\* ------------------------------------------------------------------- state
VARIABLES
    file_names,    \* dictargs["input"]
    dry_run,       \* dictargs["dry_run"]
    disk,          \* content of the file dictargs["output"]
    orig_disk,     \* history: disk before the first run
    run_disk,      \* history: disk when the current run started
    run,           \* number of the current run
    pc,            \* "convert", "update", "lines", "done", "failed"
    i,             \* convert: position of the for loop in file_names
    replacements,  \* the dict of convert, as its list of items
    warnings,      \* convert: skipped files
    data,          \* update_markdown_file: f.readlines()
    final,         \* update_markdown_file: the rewritten lines
    idx,           \* update_markdown_file: position of the for loop in data
    err,           \* the exception that ended the run, "none" otherwise
    writes,        \* history: times this run wrote the document
    opened_w,      \* history: this run opened the document with mode "w"
    src,           \* encoder specification: the texts of two diagram sources
    links,         \* encoder specification: the links convert_file made of them
    epc            \* encoder specification: "idle", "read", "first", "both"

vars == <<file_names, dry_run, disk, orig_disk, run_disk, run, pc, i, replacements,
          warnings, data, final, idx, err, writes, opened_w, src, links, epc>>

args == <<file_names, dry_run, orig_disk>>
enc_vars == <<src, links, epc>>
run_vars == <<disk, run_disk, run, pc, i, replacements, warnings, data, final, idx,
              err, writes, opened_w>>

\* the state main() starts from
RunStart ==
    /\ pc = "convert"
    /\ i = 1
    /\ replacements = <<>>
    /\ warnings = 0
    /\ data = <<>>
    /\ final = <<>>
    /\ idx = 1
    /\ err = "none"
    /\ writes = 0
    /\ opened_w = FALSE

Init ==
    /\ file_names \in {fs \in SeqsUpTo(Paths, MaxFiles) : Len(fs) >= 1}
    /\ dry_run \in BOOLEAN
    /\ disk \in Documents
    /\ orig_disk = disk
    /\ run_disk = disk
    /\ run = 1
    /\ RunStart
    /\ src = <<>>
    /\ links = <<>>
    /\ epc = "idle"

\* ----------------------------------------------------------------- convert
\* fname = file_name.split("/")[-1]
fname_of(file_name) == split_last(file_name, "/")

\* ftype = "." + fname.split(".")[-1]
ftype_of(fname) == <<".">> \o split_last(fname, ".")

\* ftype in diagram_types
recognized(file_name) == ftype_of(fname_of(file_name)) \in DOMAIN diagram_types

\* one iteration of the loop: a recognized file is read and encoded
ConvertEncode ==
    /\ pc = "convert"
    /\ i <= Len(file_names)
    /\ recognized(file_names[i])
    /\ LET fname == fname_of(file_names[i])
           ftype == ftype_of(fname)
       IN  replacements' = dict_set(replacements, fname,
                               convert_file(FileContent[file_names[i]],
                                            diagram_types[ftype], svg))
    /\ i' = i + 1
    /\ UNCHANGED <<args, enc_vars, disk, run_disk, run, pc, warnings, data, final, idx,
                   err, writes, opened_w>>

\* one iteration of the loop: open() or read() of a recognized file fails
ConvertReadError ==
    /\ pc = "convert"
    /\ i <= Len(file_names)
    /\ recognized(file_names[i])
    /\ pc' = "failed"
    /\ err' = "OSError"
    /\ UNCHANGED <<args, enc_vars, disk, run_disk, run, i, replacements, warnings, data,
                   final, idx, writes, opened_w>>

\* one iteration of the loop: an unrecognized file is skipped with a warning
ConvertSkip ==
    /\ pc = "convert"
    /\ i <= Len(file_names)
    /\ ~recognized(file_names[i])
    /\ warnings' = warnings + 1
    /\ i' = i + 1
    /\ UNCHANGED <<args, enc_vars, disk, run_disk, run, pc, replacements, data, final,
                   idx, err, writes, opened_w>>

\* the loop is over: convert returns and main calls update_markdown_file
ConvertReturn ==
    /\ pc = "convert"
    /\ i > Len(file_names)
    /\ pc' = "update"
    /\ UNCHANGED <<args, enc_vars, disk, run_disk, run, i, replacements, warnings, data,
                   final, idx, err, writes, opened_w>>

\* ---------------------------------------------------- update_markdown_file
\* not dry_run, with the test forgotten
not_dry_run_ignored(dr) == TRUE

\* if not dry_run:
not_dry_run(dr) == ~dr

\* the loop over data stopping one line short
lines_done_early(k, lines) == k > Len(lines) - 1

\* for index, line in enumerate(data) has no line left
lines_done(k, lines) == k > Len(lines)

\* with open(file_name, "r") as f: data = f.readlines()
ReadDocument ==
    /\ pc = "update"
    /\ data' = readlines(disk)
    /\ pc' = "lines"
    /\ UNCHANGED <<args, enc_vars, disk, run_disk, run, i, replacements, warnings, final,
                   idx, err, writes, opened_w>>

\* opening or reading the document fails
ReadDocumentError ==
    /\ pc = "update"
    /\ pc' = "failed"
    /\ err' = "OSError"
    /\ UNCHANGED <<args, enc_vars, disk, run_disk, run, i, replacements, warnings, data,
                   final, idx, writes, opened_w>>

\* one iteration of the loop: req = check_line(...); final.append(req)
CheckLine ==
    /\ pc = "lines"
    /\ ~lines_done(idx, data)
    /\ check_line(data[idx], replacements) # UnboundLocal
    /\ final' = Append(final, check_line(data[idx], replacements))
    /\ idx' = idx + 1
    /\ UNCHANGED <<args, enc_vars, disk, run_disk, run, pc, i, replacements, warnings,
                   data, err, writes, opened_w>>

\* one iteration of the loop: check_line returns req before assigning it
CheckLineUnbound ==
    /\ pc = "lines"
    /\ ~lines_done(idx, data)
    /\ check_line(data[idx], replacements) = UnboundLocal
    /\ pc' = "failed"
    /\ err' = "UnboundLocalError"
    /\ UNCHANGED <<args, enc_vars, disk, run_disk, run, i, replacements, warnings, data,
                   final, idx, writes, opened_w>>

\* with open(file_name, "w") as f: f.writelines(final)
WriteDocument ==
    /\ pc = "lines"
    /\ lines_done(idx, data)
    /\ not_dry_run(dry_run)
    /\ opened_w' = TRUE
    /\ disk' = concat(final)
    /\ writes' = writes + 1
    /\ pc' = "done"
    /\ UNCHANGED <<args, enc_vars, run_disk, run, i, replacements, warnings, data, final,
                   idx, err>>

\* the else branch: "This was a dry run."
DryRunNotice ==
    /\ pc = "lines"
    /\ lines_done(idx, data)
    /\ ~not_dry_run(dry_run)
    /\ pc' = "done"
    /\ UNCHANGED <<args, enc_vars, disk, run_disk, run, i, replacements, warnings, data,
                   final, idx, err, writes, opened_w>>

\* the same command is run once more on what the previous run left
RunAgain ==
    /\ pc = "done"
    /\ run < MaxRuns
    /\ run' = run + 1
    /\ run_disk' = disk
    /\ pc' = "convert"
    /\ i' = 1
    /\ replacements' = <<>>
    /\ warnings' = 0
    /\ data' = <<>>
    /\ final' = <<>>
    /\ idx' = 1
    /\ err' = "none"
    /\ writes' = 0
    /\ opened_w' = FALSE
    /\ UNCHANGED <<args, enc_vars, disk>>

Next ==
    \/ ConvertEncode
    \/ ConvertReadError
    \/ ConvertSkip
    \/ ConvertReturn
    \/ ReadDocument
    \/ ReadDocumentError
    \/ CheckLine
    \/ CheckLineUnbound
    \/ WriteDocument
    \/ DryRunNotice
    \/ RunAgain

Spec == Init /\ [][Next]_vars

\* ------------------------------------------------- encoder specification
\* convert_file applied to two diagram sources, one after the other
EncInit ==
    /\ src \in Contents \X Contents
    /\ links = <<>>
    /\ epc = "read"
    /\ file_names = <<path_a>>
    /\ dry_run = TRUE
    /\ disk = <<>>
    /\ orig_disk = <<>>
    /\ run_disk = <<>>
    /\ run = MaxRuns
    /\ pc = "done"
    /\ i = 1
    /\ replacements = <<>>
    /\ warnings = 0
    /\ data = <<>>
    /\ final = <<>>
    /\ idx = 1
    /\ err = "none"
    /\ writes = 0
    /\ opened_w = FALSE

EncodeFirst ==
    /\ epc = "read"
    /\ links' = <<convert_file(src[1], mermaid, svg)>>
    /\ epc' = "first"
    /\ UNCHANGED <<args, run_vars, src>>

EncodeSecond ==
    /\ epc = "first"
    /\ links' = Append(links, convert_file(src[2], mermaid, svg))
    /\ epc' = "both"
    /\ UNCHANGED <<args, run_vars, src>>

EncNext ==
    \/ EncodeFirst
    \/ EncodeSecond

SpecEnc == EncInit /\ [][EncNext]_vars

\* ------------------------------------------------------ decoding a payload
\* what a decoder yields for malformed input (no byte is negative)
Invalid == <<-1>>

\* position of a character in the URL-safe alphabet, counted from 0
sextet(c) == (CHOOSE k \in 1..64 : urlsafe_alphabet[k] = c) - 1

in_alphabet(c) == \E k \in 1..64 : urlsafe_alphabet[k] = c

RECURSIVE b64url_decode(_)
\* strict URL-safe base64 decoding: groups of four, "=" only as final padding
b64url_decode(chars) ==
    IF chars = <<>> THEN <<>>
    ELSE IF Len(chars) < 4 \/ ~in_alphabet(chars[1]) \/ ~in_alphabet(chars[2]) THEN Invalid
    ELSE IF chars[3] = "="
    THEN IF Len(chars) = 4 /\ chars[4] = "=" /\ sextet(chars[2]) % 16 = 0
         THEN <<(sextet(chars[1]) * 64 + sextet(chars[2])) \div 16>>
         ELSE Invalid
    ELSE IF ~in_alphabet(chars[3]) THEN Invalid
    ELSE IF chars[4] = "="
    THEN IF Len(chars) = 4 /\ sextet(chars[3]) % 4 = 0
         THEN LET n == sextet(chars[1]) * 4096 + sextet(chars[2]) * 64 + sextet(chars[3])
              IN  <<n \div 1024, (n \div 4) % 256>>
         ELSE Invalid
    ELSE IF ~in_alphabet(chars[4]) THEN Invalid
    ELSE LET n == sextet(chars[1]) * 262144 + sextet(chars[2]) * 4096
                  + sextet(chars[3]) * 64 + sextet(chars[4])
             rest == b64url_decode(SubSeq(chars, 5, Len(chars)))
         IN  IF rest = Invalid THEN Invalid
             ELSE <<n \div 65536, (n \div 256) % 256, n % 256>> \o rest

RECURSIVE unpack_bits(_)
\* bytes to bits, lowest bit of each byte first
unpack_bits(bytes) ==
    IF bytes = <<>> THEN <<>>
    ELSE [k \in 1..8 |-> (Head(bytes) \div (2 ^ (k - 1))) % 2] \o unpack_bits(Tail(bytes))

\* the number whose n bits, most significant first, start at bits[pos]
code_at(bits, pos, n) ==
    LET RECURSIVE val(_, _)
        val(k, acc) == IF k = n THEN acc ELSE val(k + 1, 2 * acc + bits[pos + k])
    IN  val(0, 0)

RECURSIVE inflate_fixed(_, _, _)
\* decode fixed-Huffman symbols from bits[pos] on: literals up to end-of-block
inflate_fixed(bits, pos, out) ==
    IF pos + 6 > Len(bits) THEN Invalid
    ELSE IF code_at(bits, pos, 7) = 0
         THEN (IF Len(bits) - (pos + 6) < 8 THEN out ELSE Invalid)
    ELSE IF code_at(bits, pos, 7) <= 23 THEN Invalid
    ELSE IF pos + 7 > Len(bits) THEN Invalid
    ELSE IF code_at(bits, pos, 8) <= 191
         THEN inflate_fixed(bits, pos + 8, Append(out, code_at(bits, pos, 8) - 48))
    ELSE IF code_at(bits, pos, 8) <= 199 THEN Invalid
    ELSE IF pos + 8 > Len(bits) THEN Invalid
    ELSE inflate_fixed(bits, pos + 9, Append(out, code_at(bits, pos, 9) - 400 + 144))

\* zlib.decompress for streams of one final fixed-Huffman block of literals:
\* header check, the block, the Adler-32 of the result
inflate(bytes) ==
    IF bytes = Invalid \/ Len(bytes) < 7 THEN Invalid
    ELSE IF bytes[1] % 16 # 8 \/ (bytes[1] * 256 + bytes[2]) % 31 # 0 THEN Invalid
    ELSE LET bits == unpack_bits(SubSeq(bytes, 3, Len(bytes) - 4))
             out == inflate_fixed(bits, 4, <<>>)
         IN  IF SubSeq(bits, 1, 3) # <<1, 1, 0>> \/ out = Invalid THEN Invalid
             ELSE IF adler32(out) # SubSeq(bytes, Len(bytes) - 3, Len(bytes)) THEN Invalid
             ELSE out

\* "https://kroki.io/mermaid/svg/"
link_prefix ==
    <<"h","t","t","p","s",":","/","/","k","r","o","k","i",".","i","o","/",
      "m","e","r","m","a","i","d","/","s","v","g","/">>

has_prefix(s, prefix) == Len(s) >= Len(prefix) /\ SubSeq(s, 1, Len(prefix)) = prefix

\* the text of a link after the prefix
payload_of(link) == SubSeq(link, Len(link_prefix) + 1, Len(link))

matching(line) ==
    {p \in 1..Len(replacements) :
        contains(line, <<"!", "[">> \o replacements[p].key \o <<"]">>)}

\* the line "![k](L)" and one line feed, for the p-th item (k, L)
rewritten(p) ==
    <<"!", "[">> \o replacements[p].key \o <<"]", "(">> \o replacements[p].value
        \o <<")", "\n">>

\* the document has been read and the run is over, normally or not
ended_after_read == pc = "done" \/ (pc = "failed" /\ err # "OSError")

\* C1: a line that contains the placeholder of some key of a non-empty
\* mapping is rewritten to exactly "![k](L)" plus one line feed, for a key k
\* whose placeholder it contains and the link L stored under k; nothing else
\* of the original line is kept
MatchedLineRewritten ==
    \A j \in 1..Len(final) :
        matching(data[j]) # {} => \E p \in matching(data[j]) : final[j] = rewritten(p)

\* a line with text before and after its placeholders has been rewritten
MatchedLineWitness ==
    /\ Len(final) >= 1
    /\ data[1] = line_b_a
    /\ matching(data[1]) # {}
    /\ final[1] # data[1]

\* C8: a line that contains the placeholders of two or more keys is rewritten
\* with the key that comes first in the mapping's order, whichever placeholder
\* comes first in the text
FirstMappingKeyWins ==
    \A j \in 1..Len(final) :
        Cardinality(matching(data[j])) >= 2 =>
            LET first == CHOOSE p \in matching(data[j]) : \A q \in matching(data[j]) : p <= q
            IN  final[j] = rewritten(first)

\* "y![b.mmd]![a.mmd]z" with a.mmd before b.mmd in the mapping: a.mmd is used
FirstMappingKeyWitness ==
    /\ Len(final) >= 1
    /\ data[1] = line_b_a
    /\ Len(replacements) = 2
    /\ replacements[1].key = path_a
    /\ matching(data[1]) = {1, 2}
    /\ final[1] = rewritten(1)

\* C4: in a dry run the document on disk is what it was before the run, in
\* every state of the run, and the document is never opened for writing
DryRunLeavesDocument ==
    dry_run => disk = orig_disk /\ ~opened_w /\ writes = 0

\* a dry run that rewrote a line in memory has reached its end
DryRunWitness ==
    /\ dry_run
    /\ pc = "done"
    /\ \E j \in 1..Len(final) : matching(data[j]) # {} /\ final[j] # data[j]

\* C9: a run writes the document at most once, as a whole, after every input
\* file has been encoded or skipped and every line processed; a run that
\* fails leaves the document as the run found it
WrittenOnceAtTheEnd ==
    /\ writes <= 1
    /\ writes = 1 =>
          /\ pc = "done"
          /\ i > Len(file_names)
          /\ Len(replacements) + warnings >= 1
          /\ Len(final) = Len(data)
          /\ disk = concat(final)
    /\ writes = 0 => disk = run_disk
    /\ pc = "failed" => disk = run_disk

\* reading the document failed after a diagram was encoded, for a document
\* with a line the run would have rewritten
FailedRunWitness ==
    /\ pc = "failed"
    /\ err = "OSError"
    /\ i > Len(file_names)
    /\ Len(replacements) >= 1
    /\ \E j \in 1..Len(readlines(disk)) : matching(readlines(disk)[j]) # {}

\* C10: once a run has written the document, a further run on the same
\* arguments and sources leaves the document as it is
SecondRunChangesNothing == [][run >= 2 => disk' = disk]_vars

\* the second run has written a document whose line the first run rewrote
SecondRunWitness ==
    /\ run = 2
    /\ pc = "done"
    /\ writes = 1
    /\ replacements # <<>>
    /\ \E j \in 1..Len(final) : matching(data[j]) # {}
    /\ disk # orig_disk

\* ------------------------------------------ statements the code departs from
\* C2: when no line contains the placeholder of a key, whatever the size of
\* the mapping, the run ends with the rewritten lines equal to the lines read
\* and, unless it is a dry run, with the original content on disk
NoMatchIsIdentity ==
    (ended_after_read /\ \A j \in 1..Len(data) : matching(data[j]) = {}) =>
        /\ pc = "done"
        /\ final = data
        /\ ~dry_run => disk = run_disk

\* C3: for every document and mapping the rewritten sequence has as many
\* lines as were read, the j-th being check_line of the j-th line read
LineCountPreserved ==
    ended_after_read =>
        /\ Len(final) = Len(data)
        /\ \A j \in 1..Len(data) : final[j] = check_line(data[j], replacements)

\* the extension of a file name: the text from its last "." on, none when the
\* name has no "."
extension(name) ==
    IF \E k \in 1..Len(name) : name[k] = "." THEN <<".">> \o split_last(name, ".")
    ELSE <<>>

\* C5: the keys of the mapping convert returns are exactly the base names of
\* the input files whose extension is recognized
KeysAreRecognizedBaseNames ==
    pc \in {"update", "lines", "done"} =>
        {replacements[p].key : p \in 1..Len(replacements)}
            = {split_last(file_names[k], "/") : k \in
                  {n \in 1..Len(file_names) :
                      extension(split_last(file_names[n], "/")) \in {<<".","m","m","d">>}}}

\* C6: with every file readable, a run reaches its normal end whatever the
\* number of unrecognized input files: the only failures are I/O failures
UnsupportedTypeNotFatal ==
    pc = "failed" => err = "OSError"

====
